---- MODULE Spec2Model ----
(***************************************************************************)
(* The ponika API client (src/src/ponika/__init__.py): the token cache of  *)
(* PonikaClient, its transport (_get, _post) and the endpoint groups, and  *)
(* the pydantic schema of the /gps/global payload.                         *)
(***************************************************************************)
EXTENDS Integers, Sequences, FiniteSets

VARIABLES auth, now, last, issued, refreshed, gps

vars == <<auth, now, last, issued, refreshed, gps>>

-----------------------------------------------------------------------------
(* Bounds of the model.                                                    *)

\* The clock int(time()) runs over 0..MaxTime.
MaxTime == 1
\* The device reports expires in 0..MaxTtl.
MaxTtl == 2

-----------------------------------------------------------------------------
(* Python values.                                                          *)

\* Optional[X]: None is the empty sequence, a value x is <<x>>.
None == <<>>
Some(x) == <<x>>

\* Token strings the device may issue; "" is the empty string.
Tokens == {"", "T1", "T2"}

\* Seconds that may pass between the clock read of the cache test and the
\* clock read that dates the new token (the login request is in between).
LoginDelays == {0, 1}

\* HTTP statuses the device may answer with: raise_for_status() treats every
\* 4xx and 5xx status alike.
Statuses == {200, 401}

-----------------------------------------------------------------------------
(* Responses of the device.  A body is not JSON ("nonjson"), JSON that     *)
(* fails ApiResponse[data_model].model_validate ("invalid"), or an         *)
(* envelope {success, data} that validates.                                *)

NoEnvelope == [success |-> FALSE, data |-> None]

Body(kind, success, data) == [kind |-> kind, success |-> success, data |-> data]

\* LoginResponseData: token and expires (username is not read by the client).
LoginResponseData == [token : Tokens, expires : 0..MaxTtl]

\* The data a login envelope with success=false may still carry.
RejectedData == {None, Some([token |-> "T1", expires |-> MaxTtl])}

LoginBodies ==
    {Body("nonjson", FALSE, None), Body("invalid", FALSE, None)}
        \cup {Body("envelope", TRUE, d) : d \in {None} \cup {Some(x) : x \in LoginResponseData}}
        \cup {Body("envelope", FALSE, d) : d \in RejectedData}

\* The payload of the other endpoints is opaque here: "data" stands for a
\* record that validated against the endpoint's data model.
EndpointBodies ==
    {Body("nonjson", FALSE, None), Body("invalid", FALSE, None)}
        \cup {Body("envelope", TRUE, Some("data"))}

LoginResponses == [status : Statuses, body : LoginBodies]
EndpointResponses == [status : Statuses, body : EndpointBodies]

-----------------------------------------------------------------------------
(* Transport.                                                              *)

\* Python truthiness of an Optional[str]: None and "" are falsy.
Truthy(auth_token) == auth_token # None /\ auth_token[1] # ""

\* headers=({"Authorization": f"Bearer {auth_token}"} if auth_token else None):
\* the bearer value carried by the request, or None when no header is sent.
Headers(auth_token) == IF Truthy(auth_token) THEN Some(auth_token[1]) ELSE None

\* A request on the wire; auth_required is the flag the caller passed.
Request(method, path, auth_required, auth_token) == [method |-> method, path |-> path, auth_required |-> auth_required, bearer |-> Headers(auth_token)]

\* response.raise_for_status() raises HTTPError for a 4xx/5xx status.
raise_for_status(status) == status >= 400

\* What one request/response exchange gives its caller: err is "none" or the
\* exception raised, status the response's status, parsed whether
\* response.json() ran before raise_for_status(), env the envelope returned.
Exchange(req, err, status, parsed, env) == [sent |-> req, err |-> err, status |-> status, parsed |-> parsed, env |-> env]

\* ApiResponse[data_model].model_validate(response.json()).
model_validate(req, resp, parsed) ==
    IF resp.body.kind = "nonjson" THEN Exchange(req, "JSONDecodeError", resp.status, parsed, NoEnvelope)
    ELSE IF resp.body.kind = "invalid" THEN Exchange(req, "ValidationError", resp.status, parsed, NoEnvelope)
    ELSE Exchange(req, "none", resp.status, parsed, [success |-> resp.body.success, data |-> resp.body.data])

\* _get after the token lookup: print(response.json()) comes first, then
\* raise_for_status(), then model_validate.
get_exchange(path, auth_required, auth_token, resp) ==
    LET req == Request("GET", path, auth_required, auth_token)
    IN  IF resp.body.kind = "nonjson" THEN Exchange(req, "JSONDecodeError", resp.status, TRUE, NoEnvelope)
        ELSE IF raise_for_status(resp.status) THEN Exchange(req, "HTTPError", resp.status, TRUE, NoEnvelope)
        ELSE model_validate(req, resp, TRUE)

\* _post after the token lookup: raise_for_status(), then model_validate.
post_exchange(path, auth_required, auth_token, resp) ==
    LET req == Request("POST", path, auth_required, auth_token)
    IN  IF raise_for_status(resp.status) THEN Exchange(req, "HTTPError", resp.status, FALSE, NoEnvelope)
        ELSE model_validate(req, resp, FALSE)

\* login(username, password): _post("/login", ..., auth_required=False).
login(resp) == post_exchange("/login", FALSE, None, resp)

-----------------------------------------------------------------------------
(* Token cache.                                                            *)

\* CacheHit with the last second of validity taken for expired.
CacheHit_late(a, t) == a # None /\ a[1].expires_at > t + 1

\* if self.auth and self.auth.expires_at > int(time())
CacheHit(a, t) == a # None /\ a[1].expires_at > t

\* NewAuth with the reported ttl stored as the expiry instant.
NewAuth_ttl_only(env, t) ==
    IF env.success /\ env.data # None
    THEN Some([token |-> env.data[1].token, expires_at |-> env.data[1].expires])
    ELSE None

\* The Token built from a login envelope at time t, or None.
NewAuth(env, t) ==
    IF env.success /\ env.data # None
    THEN Some([token |-> env.data[1].token, expires_at |-> t + env.data[1].expires])
    ELSE None

\* What get_auth_token gives its caller: the cache and clock afterwards, the
\* value returned, the exchanges made, and the exception raised if any.
Lookup(a, t, ret, hit, exchanges, err) == [auth |-> a, now |-> t, ret |-> ret, hit |-> hit, exchanges |-> exchanges, err |-> err]

\* return self.auth.token: the cache hit, with no request made.
cached(a, t) == Lookup(a, t, Some(a[1].token), TRUE, <<>>, "none")

\* The rest of get_auth_token: the login made at time t is answered by resp
\* and the clock reads t + dt when the new Token is built.  An exception
\* of login propagates and leaves self.auth as it was.
refresh(a, t, resp, dt) ==
    LET r == login(resp)
        na == NewAuth(r.env, t + dt)
    IN  IF r.err # "none" THEN Lookup(a, t + dt, None, FALSE, <<r>>, r.err)
        ELSE Lookup(na, t + dt, IF na # None THEN Some(na[1].token) ELSE None, FALSE, <<r>>, "none")

\* The outcomes of get_auth_token() with cache a at time t.
get_auth_token(a, t) ==
    IF CacheHit(a, t) THEN {cached(a, t)}
    ELSE {refresh(a, t, resp, dt) : resp \in LoginResponses, dt \in {d \in LoginDelays : t + d <= MaxTime}}

\* auth_token = ... if auth_required else None: no lookup is made.
NoLookup(a, t) == Lookup(a, t, None, FALSE, <<>>, "none")

-----------------------------------------------------------------------------
(* GpsEndpoint.GetGlobalResponseData: the pydantic model of the data of a  *)
(* /gps/global response.  A field of the JSON object is absent, null, a    *)
(* string or a number (v is its text).                                     *)

Absent == [kind |-> "absent", v |-> ""]
Null == [kind |-> "null", v |-> ""]
Str(v) == [kind |-> "str", v |-> v]
Num(v) == [kind |-> "num", v |-> v]

\* What the device may send in a Literal["0", "1"] field and in a str field.
LiteralInputs == {Absent, Null, Str("0"), Str("1"), Str("2"), Num("1")}
StrInputs == {Absent, Null, Str("30"), Num("30")}

GpsPayloads == [enabled : LiteralInputs, galileo_sup : LiteralInputs, glonass_sup : LiteralInputs, beidou_sup : LiteralInputs, dpo_enabled : LiteralInputs, mode : LiteralInputs, interval : StrInputs, timeout : StrInputs]

\* Literal["0", "1"]: the string "0" or "1", with no coercion.
Literal01(x) == x.kind = "str" /\ x.v \in {"0", "1"}

\* enabled: Literal["0", "1"]: a required field.
RequiredLiteral(x) == Literal01(x)

\* OptionalLiteral with null refused.
OptionalLiteral_no_null(x) == x = Absent \/ Literal01(x)

\* dpo_enabled: Optional[Literal["0", "1"]] = None: absent takes the default,
\* null is None, anything else must be the literal.
OptionalLiteral(x) == x = Absent \/ x = Null \/ Literal01(x)

\* interval: Optional[str] = None
OptionalStr(x) == x = Absent \/ x = Null \/ x.kind = "str"

\* The value of an optional field in the parsed model: None is Null.
Parsed(x) == IF x = Absent THEN Null ELSE x

\* GetGlobalResponseData.model_validate(p): None is a ValidationError,
\* Some(m) the parsed model.
GetGlobalResponseData(p) ==
    IF /\ RequiredLiteral(p.enabled) /\ RequiredLiteral(p.galileo_sup)
       /\ RequiredLiteral(p.glonass_sup) /\ RequiredLiteral(p.beidou_sup)
       /\ OptionalLiteral(p.dpo_enabled) /\ OptionalLiteral(p.mode)
       /\ OptionalStr(p.interval) /\ OptionalStr(p.timeout)
    THEN Some([enabled |-> p.enabled, galileo_sup |-> p.galileo_sup, glonass_sup |-> p.glonass_sup, beidou_sup |-> p.beidou_sup, dpo_enabled |-> Parsed(p.dpo_enabled), mode |-> Parsed(p.mode), interval |-> Parsed(p.interval), timeout |-> Parsed(p.timeout)])
    ELSE None

\* No /gps/global payload is under validation.
GpsIdle == [payload |-> [enabled |-> Absent, galileo_sup |-> Absent, glonass_sup |-> Absent, beidou_sup |-> Absent, dpo_enabled |-> Absent, mode |-> Absent, interval |-> Absent, timeout |-> Absent], done |-> FALSE, result |-> None]

-----------------------------------------------------------------------------
(* Calls.  A call's result: the cache and clock it leaves, whether the     *)
(* caller passed auth_required, whether get_auth_token ran (lookup), hit   *)
(* on the cache and what it returned (ret), the request/response exchanges *)
(* made in order, and the exception the call raised ("none": it returned). *)

Result(auth_required, lookup, g, xs, err) == [auth |-> g.auth, now |-> g.now, auth_required |-> auth_required, lookup |-> lookup, hit |-> g.hit, ret |-> g.ret, exchanges |-> g.exchanges \o xs, err |-> err]

\* auth_token = self.get_auth_token() if auth_required else None
AuthTokens(auth_required, a, t) == IF auth_required THEN get_auth_token(a, t) ELSE {NoLookup(a, t)}

\* A login exchange whose envelope has success=true and data.
SuccessfulLogin(x) == x.sent.path = "/login" /\ x.err = "none" /\ x.env.success /\ x.env.data # None

\* The token of the successful login among the exchanges xs (a login is
\* always a call's first exchange), or None.
LoginToken(xs) == IF xs # <<>> /\ SuccessfulLogin(xs[1]) THEN Some(xs[1].env.data[1].token) ELSE None

\* The state after a call op with result r.  last describes the call: stale
\* says that the cache held an expired token when the call began, at is the
\* clock when it ended.  issued and refreshed are history: the token of the
\* latest successful login response the client received, and of the latest
\* one that get_auth_token received.
Finish(op, r) ==
    /\ auth' = r.auth
    /\ now' = r.now
    /\ last' = [op |-> op, at |-> r.now, stale |-> (auth # None /\ ~CacheHit(auth, now)), auth_required |-> r.auth_required, lookup |-> r.lookup, hit |-> r.hit, ret |-> r.ret, exchanges |-> r.exchanges, err |-> r.err]
    /\ issued' = IF LoginToken(r.exchanges) # None THEN LoginToken(r.exchanges) ELSE issued
    /\ refreshed' = IF r.lookup /\ LoginToken(r.exchanges) # None THEN LoginToken(r.exchanges) ELSE refreshed
    /\ UNCHANGED gps

\* _get(endpoint, data_model, auth_required) as call op: an exception of
\* get_auth_token propagates before anything is sent.
_get(op, path, auth_required) ==
    \E g \in AuthTokens(auth_required, auth, now) :
        IF g.err # "none" THEN Finish(op, Result(auth_required, auth_required, g, <<>>, g.err))
        ELSE \E x \in {get_exchange(path, auth_required, g.ret, resp) : resp \in EndpointResponses} :
                Finish(op, Result(auth_required, auth_required, g, <<x>>, x.err))

\* _post(endpoint, data_model, auth_required) as call op.
_post(op, path, auth_required) ==
    \E g \in AuthTokens(auth_required, auth, now) :
        IF g.err # "none" THEN Finish(op, Result(auth_required, auth_required, g, <<>>, g.err))
        ELSE \E x \in {post_exchange(path, auth_required, g.ret, resp) : resp \in EndpointResponses} :
                Finish(op, Result(auth_required, auth_required, g, <<x>>, x.err))

\* PonikaClient.get_auth_token() called by the user.
get_auth_token_call == \E g \in get_auth_token(auth, now) : Finish("get_auth_token", Result(FALSE, TRUE, g, <<>>, g.err))

\* login_call with the token of a successful response stored in self.auth.
login_call_stores ==
    \E x \in {login(resp) : resp \in LoginResponses} :
        Finish("login", [Result(FALSE, FALSE, NoLookup(auth, now), <<x>>, x.err) EXCEPT !.auth = IF x.err = "none" /\ NewAuth(x.env, now) # None THEN NewAuth(x.env, now) ELSE auth])

\* PonikaClient.login(username, password) called by the user: the response
\* is returned and self.auth is not touched.
login_call == \E x \in {login(resp) : resp \in LoginResponses} : Finish("login", Result(FALSE, FALSE, NoLookup(auth, now), <<x>>, x.err))

\* logout with self.auth cleared after the request.
logout_clears ==
    \E g \in AuthTokens(TRUE, auth, now) :
        IF g.err # "none" THEN Finish("logout", Result(TRUE, TRUE, g, <<>>, g.err))
        ELSE \E x \in {post_exchange("/logout", TRUE, g.ret, resp) : resp \in EndpointResponses} :
                Finish("logout", [Result(TRUE, TRUE, g, <<x>>, x.err) EXCEPT !.auth = None])

\* PonikaClient.logout()
logout == _post("logout", "/logout", TRUE)

\* SessionEndpoint.get_status()
session_get_status == _get("session.get_status", "/session/status", TRUE)

\* UnauthorizedEndpoint.get_status(): auth_required is left at its default.
unauthorized_get_status == _get("unauthorized.get_status", "/unauthorized/status", TRUE)

\* A second passes on the clock read by int(time()).
Tick ==
    /\ now < MaxTime
    /\ now' = now + 1
    /\ UNCHANGED <<auth, last, issued, refreshed, gps>>

\* PonikaClient.__init__: self.auth = None; no call made yet.
Init ==
    /\ auth = None
    /\ now = 0
    /\ last = [op |-> "init", at |-> 0, stale |-> FALSE, auth_required |-> FALSE, lookup |-> FALSE, hit |-> FALSE, ret |-> None, exchanges |-> <<>>, err |-> "none"]
    /\ issued = None
    /\ refreshed = None
    /\ gps = GpsIdle

Next ==
    \/ get_auth_token_call
    \/ login_call
    \/ logout
    \/ session_get_status
    \/ unauthorized_get_status
    \/ Tick

Spec == Init /\ [][Next]_vars

-----------------------------------------------------------------------------
(* The schema of /gps/global on its own: every payload of GpsPayloads is   *)
(* validated once.                                                         *)

\* GpsEndpoint.get_global(), the validation of the data of its response.
gps_get_global ==
    /\ ~gps.done
    /\ gps' = [gps EXCEPT !.done = TRUE, !.result = GetGlobalResponseData(gps.payload)]
    /\ UNCHANGED <<auth, now, last, issued, refreshed>>

InitGps ==
    /\ auth = None
    /\ now = 0
    /\ last = [op |-> "init", at |-> 0, stale |-> FALSE, auth_required |-> FALSE, lookup |-> FALSE, hit |-> FALSE, ret |-> None, exchanges |-> <<>>, err |-> "none"]
    /\ issued = None
    /\ refreshed = None
    /\ gps \in [payload : GpsPayloads, done : {FALSE}, result : {None}]

NextGps == gps_get_global

SpecGps == InitGps /\ [][NextGps]_vars

-----------------------------------------------------------------------------
(* Properties.  last' # last holds of exactly the steps that are calls     *)
(* (a call that leaves last as it was leaves every variable as it was).    *)

\* The cache a holds a token that is valid at time t.
Valid(a, t) == a # None /\ t < a[1].expires_at

\* The login requests and the auth_required requests of the call l.
LoginAt(l) == {i \in DOMAIN l.exchanges : l.exchanges[i].sent.path = "/login"}
AuthRequests(l) == {i \in DOMAIN l.exchanges : l.exchanges[i].sent.auth_required}

\* The login response of exchange x is an envelope with success=true and data.
Accepted(x) == x.err = "none" /\ x.env.success /\ x.env.data # None

\* C1: an auth_required call made with no valid cached token issues exactly
\* one login request, POST /login without auth, before the endpoint request,
\* and the endpoint request carries the token that login returned.
C1_OneLoginThenToken ==
    [][(last' # last /\ last'.auth_required /\ ~Valid(auth, now)) =>
        /\ Cardinality(LoginAt(last')) = 1
        /\ last'.exchanges[1].sent = [method |-> "POST", path |-> "/login", auth_required |-> FALSE, bearer |-> None]
        /\ \A i \in AuthRequests(last') :
              /\ i > 1
              /\ last'.exchanges[1].env.data # None
              /\ last'.exchanges[i].sent.bearer = Some(last'.exchanges[1].env.data[1].token)]_vars

\* C2: a call that looks the token up while the cache is valid (now <
\* expires_at) issues no login request, gets the cached token and leaves the
\* cache as it was.
C2_CacheHit ==
    [][(last' # last /\ last'.lookup /\ Valid(auth, now)) =>
        /\ LoginAt(last') = {}
        /\ last'.ret = Some(auth[1].token)
        /\ auth' = auth]_vars

\* An auth_required call was served from the cache and sent its request
\* with the cached token.
C2_Witness ==
    /\ last.auth_required /\ last.hit /\ Len(last.exchanges) = 1
    /\ Valid(auth, last.at)
    /\ last.exchanges[1].sent.bearer = Some(auth[1].token)

\* C3: when the login envelope has success=false and data=null,
\* get_auth_token returns None and the auth_required call fails without
\* sending its request; no auth_required request is ever sent without a
\* bearer token.
C3_NeverUnauthenticated ==
    /\ (last.lookup /\ LoginAt(last) # {} /\ last.exchanges[1].err = "none" /\ ~last.exchanges[1].env.success /\ last.exchanges[1].env.data = None) =>
          /\ last.ret = None
          /\ last.auth_required => (last.err # "none" /\ AuthRequests(last) = {})
    /\ \A i \in AuthRequests(last) : last.exchanges[i].sent.bearer # None

\* The login made by get_auth_token in the call l failed: an HTTP error
\* status, a body that fails validation, or an envelope with success=false
\* or no data.
LoginFailed(l) ==
    /\ l.lookup /\ LoginAt(l) # {}
    /\ \/ l.exchanges[1].err \in {"HTTPError", "ValidationError"}
       \/ l.exchanges[1].err = "none" /\ ~Accepted(l.exchanges[1])

\* C4: after a failed login of get_auth_token the cache is empty, and the
\* call that needed the token fails, with that one login and no retry.
C4_FailedLoginEmptiesCache ==
    LoginFailed(last) =>
        /\ auth = None
        /\ Cardinality(LoginAt(last)) = 1
        /\ last.auth_required => (last.err # "none" /\ AuthRequests(last) = {})

\* C5: a response with status >= 400 surfaces as an HTTP error, its body is
\* not parsed before the status is checked, and the request is sent once.
C5_HttpErrorBeforeParsing ==
    \A i \in DOMAIN last.exchanges :
        last.exchanges[i].status >= 400 =>
            /\ last.exchanges[i].err = "HTTPError"
            /\ ~last.exchanges[i].parsed
            /\ Cardinality({j \in DOMAIN last.exchanges : last.exchanges[j].sent.path = last.exchanges[i].sent.path}) = 1

\* C6: unauthorized.get_status() issues no login request, sends no
\* Authorization header and leaves the cache as it was.
C6_UnauthorizedStatusNoAuth ==
    [][(last' # last /\ last'.op = "unauthorized.get_status") =>
        /\ LoginAt(last') = {}
        /\ \A i \in DOMAIN last'.exchanges : last'.exchanges[i].sent.bearer = None
        /\ auth' = auth]_vars

\* C7: a lookup issues a login exactly when the cache holds no token with
\* now < expires_at, and a login that succeeds at time t0 reporting
\* expires = ttl replaces the cache by the returned token with
\* expires_at = t0 + ttl, whatever the cache held.
C7_Expiry ==
    [][(last' # last /\ last'.lookup) =>
        /\ (LoginAt(last') # {}) <=> ~Valid(auth, now)
        /\ (LoginAt(last') # {} /\ Accepted(last'.exchanges[1])) =>
              auth' = Some([token |-> last'.exchanges[1].env.data[1].token, expires_at |-> last'.at + last'.exchanges[1].env.data[1].expires])]_vars

\* A call found an expired token in the cache and its login replaced it
\* by a token that is valid for a while.
C7_Witness ==
    /\ last.lookup /\ last.stale /\ LoginAt(last) # {} /\ Accepted(last.exchanges[1])
    /\ auth = Some([token |-> last.exchanges[1].env.data[1].token, expires_at |-> last.at + last.exchanges[1].env.data[1].expires])
    /\ last.exchanges[1].env.data[1].expires > 0

\* C8: logout() sends POST /logout as an auth_required request, after a
\* login exactly when the cache is not valid, and does not clear the cache:
\* a valid cache is left as it was, a bearer token sent is the token the
\* cache holds afterwards, and a lookup that follows a returned logout
\* inside the validity window makes no login and reuses the token.
C8_LogoutKeepsCache ==
    [][/\ (last' # last /\ last'.op = "logout") =>
            /\ (LoginAt(last') # {}) <=> ~Valid(auth, now)
            /\ \A i \in DOMAIN last'.exchanges \ LoginAt(last') :
                  /\ i = Len(last'.exchanges)
                  /\ last'.exchanges[i].sent.method = "POST"
                  /\ last'.exchanges[i].sent.path = "/logout"
                  /\ last'.exchanges[i].sent.auth_required
                  /\ last'.exchanges[i].sent.bearer # None => (auth' # None /\ last'.exchanges[i].sent.bearer = Some(auth'[1].token))
            /\ Valid(auth, now) => auth' = auth
       /\ (last.op = "logout" /\ last.err = "none" /\ last' # last /\ last'.lookup /\ Valid(auth, now)) =>
            /\ LoginAt(last') = {}
            /\ auth' = auth
            /\ last'.ret = Some(auth[1].token)
            /\ \A i \in AuthRequests(last), j \in AuthRequests(last') :
                  last.exchanges[i].sent.bearer # None => last'.exchanges[j].sent.bearer = last.exchanges[i].sent.bearer]_vars

\* logout() has returned and the cache still holds, unexpired, the token
\* its request carried.
C8_Witness ==
    /\ last.op = "logout" /\ last.err = "none"
    /\ Valid(auth, now)
    /\ last.exchanges[Len(last.exchanges)].sent.bearer = Some(auth[1].token)

\* The fields of the payload p other than the six flags are well typed.
OthersWellTyped(p) == p.interval.kind \in {"absent", "null", "str"} /\ p.timeout.kind \in {"absent", "null", "str"}

\* C9: with the other fields well typed, a /gps/global record is accepted
\* if and only if enabled, galileo_sup, glonass_sup and beidou_sup are each
\* "0" or "1" and dpo_enabled and mode are each omitted or "0"/"1"; an
\* omitted optional field parses to None.
C9_AcceptedIffLiterals ==
    (gps.done /\ OthersWellTyped(gps.payload)) =>
        /\ (gps.result # None) <=>
              /\ \A f \in {"enabled", "galileo_sup", "glonass_sup", "beidou_sup"} : gps.payload[f] \in {Str("0"), Str("1")}
              /\ \A f \in {"dpo_enabled", "mode"} : gps.payload[f] \in {Absent, Str("0"), Str("1")}
        /\ gps.result # None => \A f \in {"dpo_enabled", "mode"} : gps.payload[f] = Absent => gps.result[1][f] = Null

\* C9 as amended: dpo_enabled and mode are each omitted, null or "0"/"1",
\* and an omitted or null optional field parses to None.
C9_AcceptedIffLiteralsOrNull ==
    (gps.done /\ OthersWellTyped(gps.payload)) =>
        /\ (gps.result # None) <=>
              /\ \A f \in {"enabled", "galileo_sup", "glonass_sup", "beidou_sup"} : gps.payload[f] \in {Str("0"), Str("1")}
              /\ \A f \in {"dpo_enabled", "mode"} : gps.payload[f] \in {Absent, Null, Str("0"), Str("1")}
        /\ gps.result # None => \A f \in {"dpo_enabled", "mode"} : gps.payload[f] \in {Absent, Null} => gps.result[1][f] = Null

\* enabled="1" with dpo_enabled omitted and mode null is accepted, and both
\* parse to None.
C9_Witness ==
    /\ gps.done /\ gps.result # None
    /\ gps.payload.enabled = Str("1") /\ gps.payload.dpo_enabled = Absent /\ gps.payload.mode = Null
    /\ gps.result[1].dpo_enabled = Null /\ gps.result[1].mode = Null

\* C10: the bearer token of an auth_required request is the token of the
\* latest successful login response the client received, login() called by
\* the user included.
C10_BearerIsLatestIssued ==
    \A i \in AuthRequests(last) :
        last.exchanges[i].sent.bearer # None => last.exchanges[i].sent.bearer = issued

\* C10 as amended: the bearer token of an auth_required request, and the
\* token the cache holds, is the token of the latest successful login
\* response that get_auth_token received; login() called by the user does
\* not change the cache.
C10_BearerIsLatestRefreshed ==
    /\ \A i \in AuthRequests(last) :
          last.exchanges[i].sent.bearer # None => last.exchanges[i].sent.bearer = refreshed
    /\ auth # None => Some(auth[1].token) = refreshed

\* An auth_required request carried the token of get_auth_token's login
\* after login() called by the user had received another token.
C10_Witness ==
    /\ issued # refreshed
    /\ \E i \in AuthRequests(last) : last.exchanges[i].sent.bearer # None /\ last.exchanges[i].sent.bearer = refreshed

====
